---- MODULE Spec2Model ----
(***************************************************************************)
(* A model of JSON2plaintext.py: the recursive content extractor           *)
(* (extract_content), the content cleaner (clean_content), the dialogue    *)
(* formatter (format_dialogue) and the command-line driver (main).         *)
(*                                                                         *)
(* A Python str is a sequence of one-character strings.  A parsed JSON     *)
(* value is a record tagged by its Python type:                            *)
(*   [t |-> "str",  s |-> chars]     [t |-> "num",  n |-> integer]         *)
(*   [t |-> "list", l |-> values]    [t |-> "bool", b |-> boolean]         *)
(*   [t |-> "dict", d |-> function from keys to values]   [t |-> "null"]   *)
(* The outcome of a call is a record [exc, val]: exc = "" when the call    *)
(* returns val, otherwise the name of the Python exception it raises.      *)
(***************************************************************************)
EXTENDS Integers, Sequences, FiniteSets, TLC

VARIABLES
    item,               \* extract_content: the argument
    extracted,          \* extract_content: the outcome of the call
    text,               \* clean_content: the argument
    cleaned,            \* clean_content: the value returned
    fs_input,           \* the file at args.input_file: missing, not JSON, or a JSON value
    args,               \* the parsed command line: output_format, timestamp, output_file
    messages,           \* main: data.get('messages')
    idx,                \* format_dialogue: the number of messages the loop has handled
    role,               \* format_dialogue: local
    content,            \* format_dialogue: local
    timestamp_str,      \* format_dialogue: local
    formatted_message,  \* format_dialogue: local
    formatted_dialogue, \* format_dialogue: the document accumulated so far
    output_file,        \* main: the path the document is written to
    out,                \* the output file: whether it was opened, and what it holds
    log,                \* the records handed to logging, in order
    exc,                \* the exception main caught, "" when none
    failed_at,          \* the position main was at when the run aborted
    rendered,           \* history: the numbers of the messages rendered, in order
    skipped,            \* history: the numbers of the messages skipped with the warning
    pc                  \* the position of the running call

extractVars == <<item, extracted>>
cleanVars == <<text, cleaned>>
localVars == <<role, content, timestamp_str, formatted_message>>
mainVars == <<fs_input, args, messages, idx, localVars, formatted_dialogue,
              output_file, out, log, exc, failed_at, rendered, skipped>>
vars == <<extractVars, cleanVars, mainVars, pc>>

----------------------------------------------------------------------------
(* JSON values and call outcomes *)

Str(s) == [t |-> "str", s |-> s]
Num(n) == [t |-> "num", n |-> n]
Bool(b) == [t |-> "bool", b |-> b]
Null == [t |-> "null"]
List(l) == [t |-> "list", l |-> l]
Dict(d) == [t |-> "dict", d |-> d]
EmptyDict == Dict(<<>>)

Ret(s) == [exc |-> "", val |-> s]
Raise(e) == [exc |-> e, val |-> <<>>]

HasKey(node, k) == k \in DOMAIN node.d

\* dict.get(k, default)
Get(node, k, default) == IF HasKey(node, k) THEN node.d[k] ELSE default

contentBlock == <<"c", "o", "n", "t", "e", "n", "t", "B", "l", "o", "c", "k">>

----------------------------------------------------------------------------
(* extract_content *)

\* The keys extract_content looks for in a mapping, in the order of its
\* if/elif chain.
PriorityKeys == <<"text", "content", "steps", "messages", "data">>

\* The branch of the if/elif chain a mapping takes: the first key of the
\* chain the mapping holds, "" when it holds none.
FirstKey_swapped(node) ==
    IF HasKey(node, "content") THEN "content"
    ELSE IF HasKey(node, "text") THEN "text"
    ELSE IF HasKey(node, "steps") THEN "steps"
    ELSE IF HasKey(node, "messages") THEN "messages"
    ELSE IF HasKey(node, "data") THEN "data"
    ELSE ""

FirstKey(node) ==
    IF HasKey(node, "text") THEN "text"
    ELSE IF HasKey(node, "content") THEN "content"
    ELSE IF HasKey(node, "steps") THEN "steps"
    ELSE IF HasKey(node, "messages") THEN "messages"
    ELSE IF HasKey(node, "data") THEN "data"
    ELSE ""

\* `for step in v`: the elements Python's iteration yields, or TypeError for
\* a value that is not iterable.  A str yields its characters, a dict its
\* keys (both yield str objects).
Iterate(v) ==
    CASE v.t = "list" -> Ret(v.l)
      [] v.t = "str" -> Ret([i \in 1..Len(v.s) |-> Str(<<v.s[i]>>)])
      [] v.t = "dict" ->
            LET ks == DOMAIN v.d
                RECURSIVE Keys(_)
                Keys(S) == IF S = {} THEN <<>>
                           ELSE LET k == CHOOSE x \in S : TRUE
                                IN  <<Str(<<k>>)>> \o Keys(S \ {k})
            IN  Ret(Keys(ks))
      [] OTHER -> Raise("TypeError")

\* step.get('type') == 'contentBlock', for a step that is a dict
IsContentBlock_any(step) == TRUE

IsContentBlock(step) ==
    LET ty == Get(step, "type", Null)
    IN  ty.t = "str" /\ ty.s = contentBlock

\* content += extract_content(elem) + '\n'
JoinElem_nonewline(acc, piece) == acc \o piece

JoinElem(acc, piece) == acc \o piece \o <<"\n">>

RECURSIVE extract_content(_)
RECURSIVE StepsLoop(_, _, _)
RECURSIVE ListLoop(_, _, _)

\* The loop of lines 43-45 from step number i on, with `acc` the content
\* accumulated so far.
StepsLoop(steps, i, acc) ==
    IF i > Len(steps) THEN Ret(acc)
    ELSE LET step == steps[i]
         IN  IF step.t # "dict" THEN Raise("AttributeError")
             ELSE IF IsContentBlock(step)
             THEN LET r == extract_content(Get(step, "content", List(<<>>)))
                  IN  IF r.exc # "" THEN r
                      ELSE StepsLoop(steps, i + 1, acc \o r.val)
             ELSE StepsLoop(steps, i + 1, acc)

\* The loop of lines 53-54 from element number i on.
ListLoop(elems, i, acc) ==
    IF i > Len(elems) THEN Ret(acc)
    ELSE LET r == extract_content(elems[i])
         IN  IF r.exc # "" THEN r
             ELSE ListLoop(elems, i + 1, JoinElem(acc, r.val))

extract_content(node) ==
    CASE node.t = "dict" ->
            LET k == FirstKey(node)
            IN  CASE k = "" -> Ret(<<>>)
                  [] k = "steps" ->
                        LET it == Iterate(node.d["steps"])
                        IN  IF it.exc # "" THEN it
                            ELSE StepsLoop(it.val, 1, <<>>)
                  [] OTHER -> extract_content(node.d[k])
      [] node.t = "list" -> ListLoop(node.l, 1, <<>>)
      [] node.t = "str" -> Ret(node.s)
      [] OTHER -> Ret(<<>>)

----------------------------------------------------------------------------
(* clean_content *)

\* The first position j >= i of s that holds c, 0 when there is none.
IndexFrom(s, c, i) ==
    IF \E j \in i..Len(s) : s[j] = c
    THEN CHOOSE j \in i..Len(s) : s[j] = c /\ \A h \in i..(j - 1) : s[h] # c
    ELSE 0

Slice(s, i, j) == IF j < i THEN <<>> ELSE SubSeq(s, i, j)

\* A match of \[([^\]]+)\]\([^)]+\) that starts at position i: the positions
\* of its "]" and of its ")", or <<0, 0>> when the pattern does not match
\* there.  A negated class cannot run over its delimiter, so the label ends
\* at the first "]" and the target at the first ")".
LinkMatch(s, i) ==
    LET j == IndexFrom(s, "]", i + 1)
        k == IF j = 0 THEN 0 ELSE IndexFrom(s, ")", j + 2)
    IN  IF /\ s[i] = "["
           /\ j > i + 1
           /\ j + 1 <= Len(s)
           /\ s[j + 1] = "("
           /\ k > j + 2
        THEN <<j, k>>
        ELSE <<0, 0>>

\* re.sub(r'\[([^\]]+)\]\([^)]+\)', r'\1', content), scanning from position i
RECURSIVE StripLinks(_, _)
StripLinks(s, i) ==
    IF i > Len(s) THEN <<>>
    ELSE LET m == LinkMatch(s, i)
         IN  IF m[1] = 0 THEN <<s[i]>> \o StripLinks(s, i + 1)
             ELSE Slice(s, i + 1, m[1] - 1) \o StripLinks(s, m[2] + 1)

\* html.entities.html5 restricted to the names the characters of TextChars
\* can spell.  Characters outside ASCII are written by their code point.
TextChars == {"a", "b", "l", "t", " ", "\n", "{", "}", "\"", "'",
              "[", "]", "(", ")", "&", ";"}

Html5 == {<<<<"l", "t">>, <<"<">>>>,
          <<<<"l", "t", ";">>, <<"<">>>>,
          <<<<"l", "l", ";">>, <<"U+226A">>>>,
          <<<<"l", "a", "t", ";">>, <<"U+2AAB">>>>}

InHtml5(name) == \E e \in Html5 : e[1] = name
Html5Of(name) == (CHOOSE e \in Html5 : e[1] = name)[2]

\* [^\t\n\f <&#;]
IsNameChar(c) == c \notin {"\t", "\n", "\f", " ", "<", "&", "#", ";"}

\* The number of characters [^\t\n\f <&#;]{1,32} takes from position i on.
RECURSIVE NameRun(_, _, _)
NameRun(s, i, n) ==
    IF n < 32 /\ i + n <= Len(s) /\ IsNameChar(s[i + n])
    THEN NameRun(s, i, n + 1)
    ELSE n

\* _replace_charref for a named reference: the whole name, else its longest
\* proper prefix of at least two characters that is a name, else unchanged.
RECURSIVE LongestPrefix(_, _)
LongestPrefix(name, x) ==
    IF x < 2 THEN <<"&">> \o name
    ELSE IF InHtml5(SubSeq(name, 1, x))
    THEN Html5Of(SubSeq(name, 1, x)) \o Slice(name, x + 1, Len(name))
    ELSE LongestPrefix(name, x - 1)

ReplaceCharref(name) ==
    IF InHtml5(name) THEN Html5Of(name) ELSE LongestPrefix(name, Len(name) - 1)

\* html.unescape(content), scanning from position i.  The numeric forms
\* &#...; need "#", which no text of the model holds.
RECURSIVE Unescape(_, _)
Unescape(s, i) ==
    IF i > Len(s) THEN <<>>
    ELSE LET n == NameRun(s, i + 1, 0)
             e == IF i + n + 1 <= Len(s) /\ s[i + n + 1] = ";"
                  THEN i + n + 1 ELSE i + n
         IN  IF s[i] = "&" /\ n >= 1
             THEN ReplaceCharref(SubSeq(s, i + 1, e)) \o Unescape(s, e + 1)
             ELSE <<s[i]>> \o Unescape(s, i + 1)

\* The position where .*?\} stops for a span opened by the "{" at position
\* i: the nearest "}" after it (0: none).
BraceEnd_greedy(s, i) ==
    IF \E j \in (i + 1)..Len(s) : s[j] = "}"
    THEN CHOOSE j \in (i + 1)..Len(s) :
            s[j] = "}" /\ \A h \in (j + 1)..Len(s) : s[h] # "}"
    ELSE 0

BraceEnd(s, i) == IndexFrom(s, "}", i + 1)

\* A match of \"?\{.*?\}\"? (DOTALL) that starts at position i: the position
\* of its last character, 0 when the pattern does not match there.
BraceMatch(s, i) ==
    LET open == IF s[i] = "\"" /\ i + 1 <= Len(s) /\ s[i + 1] = "{" THEN i + 1
                ELSE IF s[i] = "{" THEN i
                ELSE 0
        close == IF open = 0 THEN 0 ELSE BraceEnd(s, open)
    IN  IF close = 0 THEN 0
        ELSE IF close + 1 <= Len(s) /\ s[close + 1] = "\"" THEN close + 1
        ELSE close

\* re.sub(r'\"?\{.*?\}\"?', '', content, flags=re.DOTALL), scanning from i
RECURSIVE RemoveBraces(_, _)
RemoveBraces(s, i) ==
    IF i > Len(s) THEN <<>>
    ELSE LET e == BraceMatch(s, i)
         IN  IF e = 0 THEN <<s[i]>> \o RemoveBraces(s, i + 1)
             ELSE RemoveBraces(s, e + 1)

IsSpace(c) == c \in {" ", "\n", "\t", "\r", "\f"}

\* content.strip()
Strip(s) ==
    IF \A i \in 1..Len(s) : IsSpace(s[i]) THEN <<>>
    ELSE LET first == CHOOSE i \in 1..Len(s) :
                        ~IsSpace(s[i]) /\ \A h \in 1..(i - 1) : IsSpace(s[h])
             last == CHOOSE i \in 1..Len(s) :
                        ~IsSpace(s[i]) /\ \A h \in (i + 1)..Len(s) : IsSpace(s[h])
         IN  SubSeq(s, first, last)

\* The text the brace pattern is applied to (lines 19 and 22).
Unlinked(s) == Unescape(StripLinks(s, 1), 1)

clean_content(s) == Strip(RemoveBraces(Unlinked(s), 1))

----------------------------------------------------------------------------
(* format_dialogue: one message *)

LowerCase == <<"a", "b", "c", "d", "e", "f", "g", "h", "i", "j", "k", "l", "m", "n", "o", "p", "q", "r", "s", "t", "u", "v", "w", "x", "y", "z">>
UpperCase == <<"A", "B", "C", "D", "E", "F", "G", "H", "I", "J", "K", "L", "M", "N", "O", "P", "Q", "R", "S", "T", "U", "V", "W", "X", "Y", "Z">>

AlphaIndex(alphabet, c) ==
    IF \E i \in 1..Len(alphabet) : alphabet[i] = c
    THEN CHOOSE i \in 1..Len(alphabet) : alphabet[i] = c
    ELSE 0

\* str.lower() and str.upper() of one ASCII character
Lower(c) == IF AlphaIndex(UpperCase, c) = 0 THEN c ELSE LowerCase[AlphaIndex(UpperCase, c)]
Upper(c) == IF AlphaIndex(LowerCase, c) = 0 THEN c ELSE UpperCase[AlphaIndex(LowerCase, c)]

LowerStr(s) == [i \in 1..Len(s) |-> Lower(s[i])]

\* str.capitalize()
Capitalize(s) ==
    IF s = <<>> THEN <<>>
    ELSE <<Upper(s[1])>> \o LowerStr(SubSeq(s, 2, Len(s)))

Unknown == <<"U", "n", "k", "n", "o", "w", "n">>

\* d.get('role', 'Unknown').capitalize()
RoleOf(node) ==
    IF node.t # "dict" THEN Raise("AttributeError")
    ELSE LET r == Get(node, "role", Str(Unknown))
         IN  IF r.t # "str" THEN Raise("AttributeError")
             ELSE Ret(Capitalize(r.s))

\* A JSON number or boolean as the int Python computes with.
IsInt(v) == v.t \in {"num", "bool"}
IntOf(v) == IF v.t = "num" THEN v.n ELSE IF v.b THEN 1 ELSE 0

HasLen(v) == v.t \in {"list", "str", "dict"}
PyLen(v) ==
    CASE v.t = "list" -> Len(v.l)
      [] v.t = "str" -> Len(v.s)
      [] v.t = "dict" -> Cardinality(DOMAIN v.d)

\* versions[version_index]: a negative index counts from the end.
PyIndex(v, i) ==
    LET n == PyLen(v)
        j == IF i < 0 THEN i + n + 1 ELSE i + 1
    IN  CASE v.t = "dict" -> [exc |-> "KeyError", val |-> Null]
          [] j < 1 \/ j > n -> [exc |-> "IndexError", val |-> Null]
          [] v.t = "list" -> [exc |-> "", val |-> v.l[j]]
          [] OTHER -> [exc |-> "", val |-> Str(<<v.s[j]>>)]

\* The test of line 75.
IndexAccepted(version_index, versions) == version_index < PyLen(versions)

\* Lines 72-84: the role and the extracted content of a message, from its
\* selected version when it has a 'versions' field.  kind is "skip" for the
\* message the warning of line 80 skips, "raise" with exc when a step raises.
Resolved(k, e, r, c) == [kind |-> k, exc |-> e, role |-> r, content |-> c]
Faulted(e) == Resolved("raise", e, <<>>, <<>>)

ResolveFrom(node) ==
    LET r == RoleOf(node)
        c == extract_content(node)
    IN  IF r.exc # "" THEN Faulted(r.exc)
        ELSE IF c.exc # "" THEN Faulted(c.exc)
        ELSE Resolved("ok", "", r.val, c.val)

Resolve(message) ==
    IF message.t \in {"num", "bool", "null"} THEN Faulted("TypeError")
    ELSE IF message.t # "dict" THEN Faulted("AttributeError")
    ELSE IF HasKey(message, "versions")
    THEN LET version_index == Get(message, "currentlySelected", Num(0))
             versions == Get(message, "versions", List(<<>>))
         IN  IF ~HasLen(versions) \/ ~IsInt(version_index) THEN Faulted("TypeError")
             ELSE IF IndexAccepted(IntOf(version_index), versions)
             THEN LET version == PyIndex(versions, IntOf(version_index))
                  IN  IF version.exc # "" THEN Faulted(version.exc)
                      ELSE ResolveFrom(version.val)
             ELSE Resolved("skip", "", <<>>, <<>>)
    ELSE ResolveFrom(message)

Digits == <<"0", "1", "2", "3", "4", "5", "6", "7", "8", "9">>

\* n in decimal, zero-padded to w digits
RECURSIVE Pad(_, _)
Pad(n, w) == IF w = 0 THEN <<>> ELSE Pad(n \div 10, w - 1) \o <<Digits[(n % 10) + 1]>>

\* The proleptic Gregorian date of day z after 1970-01-01.
CivilFromDays(z) ==
    LET zz == z + 719468
        era == zz \div 146097
        doe == zz - era * 146097
        yoe == (doe - doe \div 1460 + doe \div 36524 - doe \div 146096) \div 365
        doy == doe - (365 * yoe + yoe \div 4 - yoe \div 100)
        mp == (5 * doy + 2) \div 153
        d == doy - (153 * mp + 2) \div 5 + 1
        m == IF mp < 10 THEN mp + 3 ELSE mp - 9
        y == yoe + era * 400 + (IF m <= 2 THEN 1 ELSE 0)
    IN  [year |-> y, month |-> m, day |-> d]

\* datetime.fromtimestamp(ts, tz=timezone.utc).strftime('%Y-%m-%d %H:%M:%S %Z')
Strftime(ts) ==
    LET date == CivilFromDays(ts \div 86400)
        secs == ts % 86400
    IN  Pad(date.year, 4) \o <<"-">> \o Pad(date.month, 2) \o <<"-">>
        \o Pad(date.day, 2) \o <<" ">> \o Pad(secs \div 3600, 2) \o <<":">>
        \o Pad((secs % 3600) \div 60, 2) \o <<":">> \o Pad(secs % 60, 2)
        \o <<" ", "U", "T", "C">>

\* Lines 91-96: timestamp_str.  fromtimestamp raises TypeError for a value
\* that is no number.  (It raises ValueError for a date outside the years 1
\* to 9999; the numbers of the model are 32-bit, all within 1901 to 2038.)
TimestampStr_always(message, include_timestamps) ==
    IF HasKey(message, "timestamp")
    THEN LET ts == message.d["timestamp"]
         IN  IF ~IsInt(ts) THEN Raise("TypeError")
             ELSE Ret(<<" ", "[">> \o Strftime(IntOf(ts)) \o <<"]">>)
    ELSE Ret(<<>>)

TimestampStr(message, include_timestamps) ==
    IF include_timestamps /\ HasKey(message, "timestamp")
    THEN LET ts == message.d["timestamp"]
         IN  IF ~IsInt(ts) THEN Raise("TypeError")
             ELSE Ret(<<" ", "[">> \o Strftime(IntOf(ts)) \o <<"]">>)
    ELSE Ret(<<>>)

\* Lines 98-106: the template of the output format.
Render(output_format, r, ts, c) ==
    CASE output_format = "markdown" ->
            <<"#", "#", "#", " ">> \o r \o ts \o <<"\n", "\n">> \o c \o <<"\n", "\n">>
      [] output_format = "html" ->
            <<"<", "d", "i", "v", " ", "c", "l", "a", "s", "s", "=", "\"">> \o LowerStr(r) \o <<"\"", ">", "\n", " ", " ", " ", " ", "<", "h", "3", ">">>
            \o r \o ts \o <<"<", "/", "h", "3", ">", "\n", " ", " ", " ", " ", "<", "p", ">">>
            \o c \o <<"<", "/", "p", ">", "\n", "<", "/", "d", "i", "v", ">", "\n">>
      [] OTHER -> r \o ts \o <<":", "\n">> \o c \o <<"\n", "\n">>

\* Lines 71-106: what one turn of the loop does with `message`.  kind is
\* "skip" (line 81), "empty" (line 89), "render" or "raise".
Turn(k, e, r, c, ts, fm) ==
    [kind |-> k, exc |-> e, role |-> r, content |-> c,
     timestamp_str |-> ts, formatted_message |-> fm]

HandleMessage(message, output_format, include_timestamps) ==
    LET res == Resolve(message)
        c == clean_content(res.content)
        ts == TimestampStr(message, include_timestamps)
    IN  CASE res.kind = "raise" -> Turn("raise", res.exc, <<>>, <<>>, <<>>, <<>>)
          [] res.kind = "skip" -> Turn("skip", "", <<>>, <<>>, <<>>, <<>>)
          [] c = <<>> -> Turn("empty", "", res.role, c, <<>>, <<>>)
          [] ts.exc # "" -> Turn("raise", ts.exc, <<>>, <<>>, <<>>, <<>>)
          [] OTHER -> Turn("render", "", res.role, c, ts.val,
                           Render(output_format, res.role, ts.val, c))

----------------------------------------------------------------------------
(* The values extract_content is applied to *)

MaxListLen == 2
MaxSteps == 2

Texts == {<<>>, <<"a">>, <<"b">>}
Atoms == {Str(s) : s \in Texts} \cup {Num(1), Null, Bool(TRUE)}

SeqsUpTo(V, n) == UNION {[1..m -> V] : m \in 0..n}

OneKey(k, v) == Dict([x \in {k} |-> v])
TwoKeys(k1, v1, k2, v2) == Dict([x \in {k1, k2} |-> IF x = k1 THEN v1 ELSE v2])

AllKeys == {"text", "content", "steps", "messages", "data", "role"}

\* Atoms, sequences of atoms and one-key mappings of atoms.
Level1 ==
    Atoms
    \cup {List(l) : l \in SeqsUpTo(Atoms, MaxListLen)}
    \cup {OneKey(k, v) : k \in AllKeys \ {"steps"}, v \in Atoms}

\* The entries of a 'steps' sequence: mappings with or without 'type' and
\* 'content', and entries that are no mapping.
StepTypes == {Str(contentBlock), Str(<<"n">>), Null}
StepContents == {Str(<<"a">>), Str(<<>>), List(<<Str(<<"b">>)>>), Num(1),
                 OneKey("text", Str(<<"b">>))}
StepDicts ==
    {EmptyDict}
    \cup {OneKey("type", ty) : ty \in StepTypes}
    \cup {OneKey("content", c) : c \in StepContents}
    \cup {TwoKeys("type", ty, "content", c) : ty \in StepTypes, c \in StepContents}
StepElems == StepDicts \cup {Str(<<"a">>), Null}

StepsValues ==
    {List(l) : l \in SeqsUpTo(StepElems, MaxSteps)}
    \cup {Str(<<>>), Str(<<"a">>), Num(1), Null, EmptyDict,
          OneKey("type", Str(contentBlock))}

Nested == {Str(<<"a">>), Str(<<>>), Num(1), List(<<Str(<<"b">>)>>),
           OneKey("text", Str(<<>>)), OneKey("data", Str(<<"b">>)),
           OneKey("steps", Num(1)),
           OneKey("steps", List(<<TwoKeys("type", Str(contentBlock),
                                          "content", Str(<<"a">>))>>))}

KeyPairs == {<<"text", "content">>, <<"text", "steps">>, <<"content", "steps">>,
             <<"content", "data">>, <<"steps", "messages">>, <<"steps", "data">>,
             <<"messages", "data">>, <<"role", "text">>, <<"role", "data">>}

Items ==
    Level1
    \cup {OneKey("steps", sv) : sv \in StepsValues}
    \cup {OneKey(k, v) : k \in AllKeys \ {"steps"}, v \in Level1}
    \cup {TwoKeys(p[1], v1, p[2], v2) : p \in KeyPairs, v1 \in Nested, v2 \in Nested}
    \cup {List(l) : l \in SeqsUpTo(Nested, MaxListLen)}

----------------------------------------------------------------------------
(* The state of main before it starts, for the calls modelled on their own *)

IdleMain ==
    /\ fs_input = [kind |-> "missing"]
    /\ args = [output_format |-> "text", timestamp |-> FALSE, output_file |-> <<>>]
    /\ messages = Null
    /\ idx = 0
    /\ role = <<>>
    /\ content = <<>>
    /\ timestamp_str = <<>>
    /\ formatted_message = <<>>
    /\ formatted_dialogue = <<>>
    /\ output_file = <<>>
    /\ out = [opened |-> FALSE, data |-> <<>>]
    /\ log = <<>>
    /\ exc = ""
    /\ failed_at = ""
    /\ rendered = <<>>
    /\ skipped = <<>>

----------------------------------------------------------------------------
(* SpecExtract: one call of extract_content on a value of Items *)

InitExtract ==
    /\ item \in Items
    /\ extracted = Ret(<<>>)
    /\ text = <<>>
    /\ cleaned = <<>>
    /\ IdleMain
    /\ pc = "extract"

ExtractReturns ==
    /\ pc = "extract"
    /\ extract_content(item).exc = ""
    /\ extracted' = extract_content(item)
    /\ pc' = "returned"
    /\ UNCHANGED <<item, cleanVars, mainVars>>

ExtractRaises ==
    /\ pc = "extract"
    /\ extract_content(item).exc # ""
    /\ extracted' = extract_content(item)
    /\ pc' = "raised"
    /\ UNCHANGED <<item, cleanVars, mainVars>>

NextExtract == ExtractReturns \/ ExtractRaises

SpecExtract == InitExtract /\ [][NextExtract]_vars

----------------------------------------------------------------------------
(* SpecClean: one call of clean_content *)

MaxTextLen == 4

BraceChars == {"a", " ", "\n", "{", "}", "\""}

Samples == {<<"C", "h", "e", "c", "k", " ", "[", "h", "e", "r", "e", "]", "(", "b", ")", " ", "n", "o", "w">>,
            <<"a", "{", "\"", "b", "\"", ":", "\"", "a", "\"", "}", " ", "b">>,
            <<"'", "{", "a", "}", "'", " ", "b", " ", "'", "{", "b", "}", "'">>,
            <<"&", "l", "t", ";", "b", "&", "l", "a", "t", ";", " ", "&", "l", "l", ";", " ", "&", "l", ";", " ", "&", "l", "t", "t">>,
            <<"{", "a", "}", "[", "l", "t", "]", "(", "b", ")", "{", "b", "}">>,
            <<"\"", "{", "b", "\n", "}", "\"", " ", "a", " ", "\"", "{", "b", "}", "\"">>,
            <<"&", "l", "t", "[", "{", "a", "]", "(", "}", ")">>}

CleanInputs == SeqsUpTo(BraceChars, MaxTextLen) \cup Samples

InitClean ==
    /\ text \in CleanInputs
    /\ cleaned = <<>>
    /\ item = Null
    /\ extracted = Ret(<<>>)
    /\ IdleMain
    /\ pc = "clean"

Clean ==
    /\ pc = "clean"
    /\ cleaned' = clean_content(text)
    /\ pc' = "cleaned"
    /\ UNCHANGED <<text, extractVars, mainVars>>

NextClean == Clean

SpecClean == InitClean /\ [][NextClean]_vars

----------------------------------------------------------------------------
(* Spec: one run of main *)

MaxMessages == 2

V1 == Dict([role |-> Str(<<"b", "o", "t">>), text |-> Str(<<"a">>), timestamp |-> Num(5)])
V2 == Dict([role |-> Str(<<"u", "s", "e", "r">>), content |-> Str(<<"a", "&", "l", "t", ";", "b">>)])
V3 == Dict([role |-> Str(<<"u", "s", "e", "r">>), text |-> Str(<<" ">>)])

Messages ==
    {Dict([role |-> Str(<<"u", "s", "e", "r">>), text |-> Str(<<"a">>)]),
     Dict([role |-> Str(<<"u", "s", "e", "r">>), text |-> Str(<<"a">>), timestamp |-> Num(0)]),
     Dict([text |-> Str(<<"b", "{", "a", "}", "b", "{", "}", "l">>), timestamp |-> Num(951782400)]),
     Dict([role |-> Str(<<"a", "B">>), content |-> Str(<<"{", "a", "}">>)]),
     Dict([versions |-> List(<<V1, V2>>), currentlySelected |-> Num(1),
           timestamp |-> Num(86399)]),
     Dict([versions |-> List(<<V3>>), currentlySelected |-> Num(0)]),
     Dict([versions |-> List(<<V1, V2>>), currentlySelected |-> Num(5)]),
     Dict([versions |-> List(<<V1, V2>>), currentlySelected |-> Num(-1)]),
     Dict([versions |-> List(<<>>), currentlySelected |-> Num(-1)]),
     Dict([versions |-> List(<<V1>>)]),
     Dict([role |-> Str(<<"u", "s", "e", "r">>), text |-> Str(<<"a">>), timestamp |-> Null])}

Conversations == {l \in SeqsUpTo(Messages, MaxMessages) : l # <<>>}

Inputs ==
    {[kind |-> "missing"], [kind |-> "invalid"]}
    \cup {[kind |-> "json", value |-> v] :
            v \in {List(<<>>), Str(<<"a">>), EmptyDict,
                   OneKey("data", List(<<>>)),
                   OneKey("messages", List(<<>>)),
                   OneKey("messages", Null),
                   OneKey("messages", Num(5)),
                   OneKey("messages", Str(<<"a">>))}}
    \cup {[kind |-> "json", value |-> OneKey("messages", List(l))] : l \in Conversations}

InputFile == <<"c", ".", "j", "s", "o", "n">>

Args ==
    {[output_format |-> f, timestamp |-> ts, output_file |-> <<>>] :
        f \in {"text", "markdown", "html"}, ts \in BOOLEAN}
    \cup {[output_format |-> "html", timestamp |-> TRUE, output_file |-> <<"o", ".", "m", "d">>]}

\* 'not messages': the values Python takes for false
Falsy(v) ==
    CASE v.t = "null" -> TRUE
      [] v.t = "bool" -> ~v.b
      [] v.t = "num" -> v.n = 0
      [] v.t = "str" -> v.s = <<>>
      [] v.t = "list" -> v.l = <<>>
      [] v.t = "dict" -> DOMAIN v.d = {}

\* The last position of s that holds c, 0 when there is none.
LastIndex(s, c) ==
    IF \E j \in 1..Len(s) : s[j] = c
    THEN CHOOSE j \in 1..Len(s) : s[j] = c /\ \A h \in (j + 1)..Len(s) : s[h] # c
    ELSE 0

\* os.path.splitext(p)[0]: the extension starts at the last dot of the last
\* component, unless only dots precede it there.
SplitextBase(p) ==
    LET sep == LastIndex(p, "/")
        dot == LastIndex(p, ".")
    IN  IF dot > sep /\ \E j \in (sep + 1)..(dot - 1) : p[j] # "."
        THEN SubSeq(p, 1, dot - 1)
        ELSE p

\* Lines 147-152.
OutputPath(a) ==
    IF a.output_file # <<>> THEN a.output_file
    ELSE SplitextBase(InputFile) \o <<"_", "f", "o", "r", "m", "a", "t", "t", "e", "d", ".">>
         \o (CASE a.output_format = "text" -> <<"t", "x", "t">>
               [] a.output_format = "markdown" -> <<"m", "a", "r", "k", "d", "o", "w", "n">>
               [] OTHER -> <<"h", "t", "m", "l">>)

Init ==
    /\ fs_input \in Inputs
    /\ args \in Args
    /\ messages = Null
    /\ idx = 0
    /\ role = <<>>
    /\ content = <<>>
    /\ timestamp_str = <<>>
    /\ formatted_message = <<>>
    /\ formatted_dialogue = <<>>
    /\ output_file = <<>>
    /\ out = [opened |-> FALSE, data |-> <<>>]
    /\ log = <<>>
    /\ exc = ""
    /\ failed_at = ""
    /\ rendered = <<>>
    /\ skipped = <<>>
    /\ item = Null
    /\ extracted = Ret(<<>>)
    /\ text = <<>>
    /\ cleaned = <<>>
    /\ pc = "read"

\* main leaves through one of its except clauses (lines 158-163) or through
\* the return of line 143: the fault is logged and nothing else is done.
Abort(e, record) ==
    /\ exc' = e
    /\ log' = Append(log, record)
    /\ failed_at' = pc
    /\ pc' = "aborted"

\* Lines 136-137: open() finds no file.
MainMissing ==
    /\ pc = "read"
    /\ fs_input.kind = "missing"
    /\ Abort("FileNotFoundError", "ERROR: Error: Input file not found.")
    /\ UNCHANGED <<extractVars, cleanVars, fs_input, args, messages, idx, localVars,
                   formatted_dialogue, output_file, out, rendered, skipped>>

\* Line 137: json.load() rejects the text.
MainInvalid ==
    /\ pc = "read"
    /\ fs_input.kind = "invalid"
    /\ Abort("JSONDecodeError", "ERROR: Error: Invalid JSON format in the input file.")
    /\ UNCHANGED <<extractVars, cleanVars, fs_input, args, messages, idx, localVars,
                   formatted_dialogue, output_file, out, rendered, skipped>>

\* Line 137: the document is parsed.
MainLoad ==
    /\ pc = "read"
    /\ fs_input.kind = "json"
    /\ pc' = "validate"
    /\ UNCHANGED <<extractVars, cleanVars, mainVars>>

\* Lines 140-145: data.get('messages'), the test for a value that is not
\* false, and the call of format_dialogue (line 68).
MainValidate_openfirst ==
    /\ pc = "validate"
    /\ LET data == fs_input.value
       IN  IF data.t # "dict"
           THEN /\ Abort("AttributeError", "ERROR: An unexpected error occurred")
                /\ UNCHANGED <<messages, formatted_dialogue, out>>
           ELSE IF Falsy(Get(data, "messages", Null))
           THEN /\ Abort("", "ERROR: Error: 'messages' key not found in JSON.")
                /\ messages' = Get(data, "messages", Null)
                /\ UNCHANGED <<formatted_dialogue, out>>
           ELSE /\ messages' = Get(data, "messages", Null)
                /\ formatted_dialogue' = <<>>
                /\ out' = [opened |-> TRUE, data |-> <<>>]
                /\ pc' = "format"
                /\ UNCHANGED <<exc, log, failed_at>>
    /\ UNCHANGED <<extractVars, cleanVars, fs_input, args, idx, localVars,
                   output_file, rendered, skipped>>

MainValidate ==
    /\ pc = "validate"
    /\ LET data == fs_input.value
       IN  IF data.t # "dict"
           THEN /\ Abort("AttributeError", "ERROR: An unexpected error occurred")
                /\ UNCHANGED <<messages, formatted_dialogue>>
           ELSE IF Falsy(Get(data, "messages", Null))
           THEN /\ Abort("", "ERROR: Error: 'messages' key not found in JSON.")
                /\ messages' = Get(data, "messages", Null)
                /\ UNCHANGED formatted_dialogue
           ELSE /\ messages' = Get(data, "messages", Null)
                /\ formatted_dialogue' = <<>>
                /\ pc' = "format"
                /\ UNCHANGED <<exc, log, failed_at>>
    /\ UNCHANGED <<extractVars, cleanVars, fs_input, args, idx, localVars,
                   output_file, out, rendered, skipped>>

\* The messages the loop of line 70 goes through.
Iterated == Iterate(messages)
Count == Len(Iterated.val)
Message(i) == Iterated.val[i]
Handled(i) == HandleMessage(Message(i), args.output_format, args.timestamp)
Current == Handled(idx + 1)

\* Line 70 or lines 71-106 raise: the exception leaves format_dialogue and
\* is caught by line 162.
FormatRaises ==
    /\ pc = "format"
    /\ \/ Iterated.exc # ""
       \/ Iterated.exc = "" /\ idx < Count /\ Current.kind = "raise"
    /\ Abort(IF Iterated.exc # "" THEN Iterated.exc ELSE Current.exc,
             "ERROR: An unexpected error occurred")
    /\ UNCHANGED <<extractVars, cleanVars, fs_input, args, messages, idx, localVars,
                   formatted_dialogue, output_file, out, rendered, skipped>>

\* Lines 79-81: the index is not accepted, the message is skipped.
FormatSkip ==
    /\ pc = "format"
    /\ Iterated.exc = "" /\ idx < Count /\ Current.kind = "skip"
    /\ log' = Append(log, "WARNING: 'currentlySelected' index out of range.")
    /\ skipped' = Append(skipped, idx + 1)
    /\ idx' = idx + 1
    /\ UNCHANGED <<extractVars, cleanVars, fs_input, args, messages, localVars,
                   formatted_dialogue, output_file, out, exc, failed_at, rendered, pc>>

\* Lines 86-89: the cleaned content is empty, the message is dropped.
FormatEmpty_placeholder ==
    /\ pc = "format"
    /\ Iterated.exc = "" /\ idx < Count /\ Current.kind = "empty"
    /\ role' = Current.role
    /\ content' = Current.content
    /\ formatted_dialogue' = formatted_dialogue
            \o Render(args.output_format, Current.role, <<>>, <<>>)
    /\ rendered' = Append(rendered, idx + 1)
    /\ idx' = idx + 1
    /\ UNCHANGED <<extractVars, cleanVars, fs_input, args, messages, timestamp_str,
                   formatted_message, output_file, out, log, exc,
                   failed_at, skipped, pc>>

FormatEmpty ==
    /\ pc = "format"
    /\ Iterated.exc = "" /\ idx < Count /\ Current.kind = "empty"
    /\ role' = Current.role
    /\ content' = Current.content
    /\ idx' = idx + 1
    /\ UNCHANGED <<extractVars, cleanVars, fs_input, args, messages, timestamp_str,
                   formatted_message, formatted_dialogue, output_file, out, log, exc,
                   failed_at, rendered, skipped, pc>>

\* Lines 91-108: the message is rendered and appended to the document.
FormatRender_prepend ==
    /\ pc = "format"
    /\ Iterated.exc = "" /\ idx < Count /\ Current.kind = "render"
    /\ role' = Current.role
    /\ content' = Current.content
    /\ timestamp_str' = Current.timestamp_str
    /\ formatted_message' = Current.formatted_message
    /\ formatted_dialogue' = Current.formatted_message \o formatted_dialogue
    /\ rendered' = Append(rendered, idx + 1)
    /\ idx' = idx + 1
    /\ UNCHANGED <<extractVars, cleanVars, fs_input, args, messages, output_file, out,
                   log, exc, failed_at, skipped, pc>>

FormatRender ==
    /\ pc = "format"
    /\ Iterated.exc = "" /\ idx < Count /\ Current.kind = "render"
    /\ role' = Current.role
    /\ content' = Current.content
    /\ timestamp_str' = Current.timestamp_str
    /\ formatted_message' = Current.formatted_message
    /\ formatted_dialogue' = formatted_dialogue \o Current.formatted_message
    /\ rendered' = Append(rendered, idx + 1)
    /\ idx' = idx + 1
    /\ UNCHANGED <<extractVars, cleanVars, fs_input, args, messages, output_file, out,
                   log, exc, failed_at, skipped, pc>>

\* Line 110: the loop is over, format_dialogue returns the document.
FormatReturns ==
    /\ pc = "format"
    /\ Iterated.exc = "" /\ idx = Count
    /\ pc' = "write"
    /\ UNCHANGED <<extractVars, cleanVars, mainVars>>

\* Lines 147-156: the output file is opened and the document written.
MainWrite ==
    /\ pc = "write"
    /\ output_file' = OutputPath(args)
    /\ out' = [opened |-> TRUE, data |-> formatted_dialogue]
    /\ log' = Append(log, "INFO: Formatted conversation saved")
    /\ pc' = "done"
    /\ UNCHANGED <<extractVars, cleanVars, fs_input, args, messages, idx, localVars,
                   formatted_dialogue, exc, failed_at, rendered, skipped>>

\* Line 154: open() fails (no such directory, no permission).
MainOpenFails ==
    /\ pc = "write"
    /\ output_file' = OutputPath(args)
    /\ Abort("OSError", "ERROR: An unexpected error occurred")
    /\ UNCHANGED <<extractVars, cleanVars, fs_input, args, messages, idx, localVars,
                   formatted_dialogue, out, rendered, skipped>>

\* Line 155: write() fails after open() has created or truncated the file.
MainWriteFails ==
    /\ pc = "write"
    /\ output_file' = OutputPath(args)
    /\ out' = [opened |-> TRUE, data |-> <<>>]
    /\ Abort("OSError", "ERROR: An unexpected error occurred")
    /\ UNCHANGED <<extractVars, cleanVars, fs_input, args, messages, idx, localVars,
                   formatted_dialogue, rendered, skipped>>

Next ==
    \/ MainMissing
    \/ MainInvalid
    \/ MainLoad
    \/ MainValidate
    \/ FormatRaises
    \/ FormatSkip
    \/ FormatEmpty
    \/ FormatRender
    \/ FormatReturns
    \/ MainWrite
    \/ MainOpenFails
    \/ MainWriteFails

Spec == Init /\ [][Next]_vars

----------------------------------------------------------------------------
(* Properties of extract_content, under SpecExtract *)

Called == pc \in {"returned", "raised"}

RECURSIVE Flatten(_)
Flatten(parts) == IF parts = <<>> THEN <<>> ELSE Head(parts) \o Flatten(Tail(parts))

Occurrences(s, c) == Cardinality({i \in 1..Len(s) : s[i] = c})

\* The keys of PriorityKeys a mapping holds, by their rank.
RanksHeld(node) == {i \in 1..Len(PriorityKeys) : PriorityKeys[i] \in DOMAIN node.d}
TopRank(node) == CHOOSE i \in RanksHeld(node) : \A j \in RanksHeld(node) : i <= j

\* C1: extract_content is total: for every JSON value, mappings whose 'steps'
\* is no list of mappings included, the call returns a string and never
\* raises.
C1_ExtractTotal == Called => (pc = "returned" /\ extracted.exc = "")

\* C5: on a mapping, only the key of highest priority among text, content,
\* steps, messages, data is used: the result is the one for the mapping cut
\* down to that key, and for a key other than steps it is the extraction of
\* that key's value, whatever that value extracts to; a mapping with none of
\* the keys gives the empty string.
C5_FirstKeyOnly ==
    (Called /\ item.t = "dict") =>
        IF RanksHeld(item) = {} THEN extracted = Ret(<<>>)
        ELSE LET k == PriorityKeys[TopRank(item)]
             IN  /\ extracted = extract_content(OneKey(k, item.d[k]))
                 /\ k # "steps" => extracted = extract_content(item.d[k])

C5_Witness ==
    /\ pc = "returned"
    /\ item.t = "dict"
    /\ {"text", "content"} \subseteq DOMAIN item.d
    /\ extract_content(item.d["text"]) = Ret(<<>>)
    /\ extract_content(item.d["content"]).val # <<>>
    /\ extracted = Ret(<<>>)

\* A 'steps' value that is a sequence of mappings.
StepsOf(node) == node.d["steps"]
WellFormedSteps(node) ==
    /\ node.t = "dict"
    /\ RanksHeld(node) # {}
    /\ PriorityKeys[TopRank(node)] = "steps"
    /\ StepsOf(node).t = "list"
    /\ \A j \in 1..Len(StepsOf(node).l) : StepsOf(node).l[j].t = "dict"

StepCounts(step) == "type" \in DOMAIN step.d /\ step.d["type"] = Str(contentBlock)
StepPiece(step) ==
    IF ~StepCounts(step) THEN Ret(<<>>)
    ELSE IF "content" \in DOMAIN step.d THEN extract_content(step.d["content"])
    ELSE Ret(<<>>)

\* C6: when 'steps' is the first matching key, the result is the
\* concatenation, in order and with nothing added in between, of the
\* extraction of 'content' of exactly the steps whose type is "contentBlock";
\* other steps add nothing, and a contentBlock step without 'content' adds
\* the empty string.
C6_StepsConcatenation ==
    (Called /\ WellFormedSteps(item)
        /\ \A j \in 1..Len(StepsOf(item).l) : StepPiece(StepsOf(item).l[j]).exc = "") =>
        extracted = Ret(Flatten([j \in 1..Len(StepsOf(item).l) |->
                                    StepPiece(StepsOf(item).l[j]).val]))

C6_Witness ==
    /\ pc = "returned"
    /\ WellFormedSteps(item)
    /\ Len(StepsOf(item).l) = 2
    /\ ~StepCounts(StepsOf(item).l[1])
    /\ "content" \in DOMAIN StepsOf(item).l[1].d
    /\ StepsOf(item).l[1].d["content"] = Str(<<"a">>)
    /\ StepCounts(StepsOf(item).l[2])
    /\ extracted = Ret(<<"b", "\n">>)

\* C9: on a sequence the result is the concatenation, in order, of each
\* element's extraction followed by one newline, also after the last element
\* and after an element that extracts to the empty string: k elements give
\* at least k newlines, and the empty sequence gives the empty string.
C9_ListNewlines ==
    (Called /\ item.t = "list"
        /\ \A j \in 1..Len(item.l) : extract_content(item.l[j]).exc = "") =>
        /\ extracted = Ret(Flatten([j \in 1..Len(item.l) |->
                                      extract_content(item.l[j]).val \o <<"\n">>]))
        /\ Occurrences(extracted.val, "\n") >= Len(item.l)
        /\ item.l = <<>> => extracted.val = <<>>

C9_Witness ==
    /\ pc = "returned"
    /\ item.t = "list"
    /\ Len(item.l) = 2
    /\ extract_content(item.l[1]) = Ret(<<>>)
    /\ extracted = Ret(<<"\n", "a", "\n">>)

----------------------------------------------------------------------------
(* Properties of clean_content, under SpecClean *)

HasSpan(s) == \E i \in 1..Len(s) : s[i] = "{" /\ \E j \in (i + 1)..Len(s) : s[j] = "}"

\* What is left of s when everything from its first "{" through its last
\* "}", with a single quote right before and right after, is taken out.
GreedyLeft(s) ==
    LET f == IndexFrom(s, "{", 1)
        l == LastIndex(s, "}")
        from == IF f > 1 /\ s[f - 1] = "'" THEN f - 1 ELSE f
        to == IF l < Len(s) /\ s[l + 1] = "'" THEN l + 1 ELSE l
    IN  Slice(s, 1, from - 1) \o Slice(s, to + 1, Len(s))

\* C7 as stated: brace spans are removed greedily, from the first "{"
\* through the last "}" (optionally wrapped in single quotes), so that text
\* between two spans does not survive; then the result is trimmed.
C7_GreedySpan ==
    (pc = "cleaned" /\ HasSpan(Unlinked(text))) =>
        cleaned = Strip(GreedyLeft(Unlinked(text)))

\* Position i of s lies in a span that runs from a "{" through the nearest
\* "}" after it.
InSpan(s, i) ==
    \E j \in 1..i :
        /\ s[j] = "{"
        /\ \A h \in j..(i - 1) : s[h] # "}"
        /\ \E k \in i..Len(s) : s[k] = "}"

\* Position i of s is taken out: it lies in such a span, or it is a double
\* quote right before the "{" or right after the "}" of one.
TakenOut(s, i) ==
    \/ InSpan(s, i)
    \/ s[i] = "\"" /\ i < Len(s) /\ s[i + 1] = "{" /\ InSpan(s, i + 1)
    \/ s[i] = "\"" /\ i > 1 /\ s[i - 1] = "}" /\ InSpan(s, i - 1)

RECURSIVE Kept(_, _)
Kept(s, i) ==
    IF i > Len(s) THEN <<>>
    ELSE (IF TakenOut(s, i) THEN <<>> ELSE <<s[i]>>) \o Kept(s, i + 1)

\* C7 as amended: each span runs from a "{" through the nearest following
\* "}", across newlines, with a double quote right before or right after it
\* taken out too; every other character survives, text between two spans
\* included; then the result is trimmed.
C7_NearestSpan ==
    pc = "cleaned" => cleaned = Strip(Kept(Unlinked(text), 1))

C7_Witness ==
    /\ pc = "cleaned"
    /\ \E i \in 1..Len(text) :
          /\ text[i] = "a"
          /\ HasSpan(SubSeq(text, 1, i - 1))
          /\ HasSpan(SubSeq(text, i + 1, Len(text)))
    /\ \E i \in 1..Len(text) : text[i] = "\n" /\ InSpan(text, i)
    /\ cleaned = <<"a">>

----------------------------------------------------------------------------
(* Properties of format_dialogue and main, under Spec *)

IsPrefix(s, t) == Len(s) <= Len(t) /\ SubSeq(t, 1, Len(s)) = s
Last(s) == s[Len(s)]
Range(s) == {s[i] : i \in 1..Len(s)}

\* format_dialogue was called with a sequence it can go through.
InLoop ==
    /\ pc \in {"format", "write", "done", "aborted"}
    /\ pc = "aborted" => failed_at \in {"format", "write"}
    /\ Iterated.exc = ""

\* format_dialogue has returned.
Returned == pc \in {"write", "done"} \/ (pc = "aborted" /\ failed_at = "write")

\* The message has a 'versions' sequence and an integer 'currentlySelected'
\* (0 when absent) that is no index of it.
OutOfRange(m) ==
    /\ m.t = "dict"
    /\ HasKey(m, "versions")
    /\ m.d["versions"].t = "list"
    /\ IsInt(Get(m, "currentlySelected", Num(0)))
    /\ LET i == IntOf(Get(m, "currentlySelected", Num(0)))
       IN  i < 0 \/ i >= Len(m.d["versions"].l)

\* C2: a message whose 'currentlySelected' is out of range for 'versions'
\* (negative, too large, or any index of an empty sequence) is skipped with
\* the warning: it adds nothing to the document and raises nothing, and the
\* loop goes on to the messages after it.
C2_OutOfRangeSkipped ==
    InLoop =>
        /\ \A i \in 1..idx : OutOfRange(Message(i)) => (i \in Range(skipped) /\ i \notin Range(rendered))
        /\ (pc = "aborted" /\ failed_at = "format") => ~OutOfRange(Message(idx + 1))

\* The messages whose cleaned content is empty.
EmptyCleaned ==
    {i \in 1..Count : /\ Resolve(Message(i)).kind = "ok"
                      /\ clean_content(Resolve(Message(i)).content) = <<>>}

\* C3: when format_dialogue returns, the number of rendered entries is the
\* number of messages minus those whose cleaned content is empty minus those
\* skipped for their version index; each other message is rendered exactly
\* once, and the document is the renderings one after the other.
C3_RenderedCount ==
    (InLoop /\ Returned) =>
        /\ Len(rendered) = Count - Cardinality(EmptyCleaned) - Len(skipped)
        /\ \A i \in Range(skipped) : OutOfRange(Message(i))
        /\ \A i \in 1..Count :
              Cardinality({j \in 1..Len(rendered) : rendered[j] = i})
                  = IF i \in EmptyCleaned \/ i \in Range(skipped) THEN 0 ELSE 1
        /\ formatted_dialogue
              = Flatten([j \in 1..Len(rendered) |-> Handled(rendered[j]).formatted_message])

C3_Witness ==
    /\ pc = "done"
    /\ Count = 2
    /\ Cardinality(EmptyCleaned) = 1
    /\ skipped = <<>>
    /\ Len(rendered) = 1
    /\ out.data # <<>>

Reports == {"ERROR: Error: Input file not found.",
            "ERROR: Error: Invalid JSON format in the input file.",
            "ERROR: Error: 'messages' key not found in JSON.",
            "ERROR: An unexpected error occurred"}

\* C4: a run that aborts while reading, validating or formatting never opens
\* the output file and ends with the error reported; the file is opened only
\* once format_dialogue has returned the whole document.
C4_NoPartialOutput ==
    /\ (pc = "aborted" /\ failed_at \in {"read", "validate", "format"}) =>
          (~out.opened /\ out.data = <<>> /\ log # <<>> /\ Last(log) \in Reports)
    /\ out.opened =>
          (Returned /\ pc # "write" /\ Iterated.exc = "" /\ idx = Count
           /\ (pc = "done" => out.data = formatted_dialogue))

C4_Witness ==
    /\ pc = "aborted"
    /\ failed_at = "format"
    /\ formatted_dialogue # <<>>
    /\ ~out.opened

\* The last message the loop handled was rendered.
JustRendered == InLoop /\ rendered # <<>> /\ Last(rendered) = idx

\* C8: a rendered message carries a timestamp exactly when include_timestamps
\* is set and the message itself, not its selected version, has a
\* 'timestamp' field; with the flag off or the field absent nothing is added
\* and no error occurs, in all three formats.
C8_TimestampIff ==
    /\ JustRendered =>
          LET m == Message(idx)
              wanted == args.timestamp /\ HasKey(m, "timestamp")
          IN  /\ timestamp_str # <<>> <=> wanted
              /\ wanted => timestamp_str
                             = <<" ", "[">> \o Strftime(IntOf(m.d["timestamp"])) \o <<"]">>
              /\ formatted_message
                    = Render(args.output_format, role, timestamp_str, content)
    /\ (InLoop /\ pc = "aborted" /\ failed_at = "format"
            /\ Resolve(Message(idx + 1)).kind = "ok") =>
          (args.timestamp /\ HasKey(Message(idx + 1), "timestamp"))

C8_Witness ==
    /\ JustRendered
    /\ args.timestamp
    /\ HasKey(Message(idx), "versions")
    /\ ~HasKey(Message(idx), "timestamp")
    /\ HasKey(Message(idx).d["versions"].l[1], "timestamp")
    /\ timestamp_str = <<>>

\* C10: the document only grows at its end: a skipped message leaves it as
\* it is, a rendered message appends its own rendering, so that what has
\* been accumulated stays a prefix of the document and the renderings keep
\* the order of their messages.
C10_AppendOnly ==
    [][/\ IsPrefix(formatted_dialogue, formatted_dialogue')
       /\ idx' = idx + 1 =>
            IF rendered' # rendered
            THEN /\ rendered' = Append(rendered, idx')
                 /\ formatted_dialogue' = formatted_dialogue \o formatted_message'
                 /\ formatted_message' # <<>>
            ELSE formatted_dialogue' = formatted_dialogue
       /\ idx' # idx + 1 => formatted_dialogue' = formatted_dialogue]_vars

C10_Witness ==
    /\ pc = "write"
    /\ rendered = <<1, 2>>
    /\ Handled(1).formatted_message # Handled(2).formatted_message
    /\ formatted_dialogue = Handled(1).formatted_message \o Handled(2).formatted_message

====
